---- MODULE Spec2Model ----
(***************************************************************************)
(* The traffic-vision batch pipeline of                                    *)
(* datasets/clemson_dice_traffic_vision/pipelines/_images/                 *)
(* run_csv_transform_kub/csv_transform.py: the retry wrapper around main,  *)
(* the generate_batch_metadata_files phase and the run_batch_data phase,   *)
(* over one object store (bucket) and one local staging area (fs).         *)
(*                                                                         *)
(* Object keys are <<top, folder, name>>: a top-level path, a folder and a *)
(* basename.  A basename is [base, stem, ext], e.g. "3.tar.gz" is          *)
(* [base |-> "", stem |-> <<3>>, ext |-> ".tar.gz"] and                    *)
(* "batch_metadata-000002.txt" is [base |-> "batch_metadata-",             *)
(* stem |-> <<0,0,0,0,0,2>>, ext |-> ".txt"].  A stem is a sequence of     *)
(* symbols; the empty stem gives the basename ".tar.gz".                   *)
(***************************************************************************)
EXTENDS Integers, Sequences, FiniteSets, TLC

\* ---- bounds of the model ----
MaxObjects == 1        \* numbered stems of the source objects are <<1>> .. <<MaxObjects>>
MaxBatchLength == 2    \* source_file_batch_length ranges over 1..MaxBatchLength
MaxGroupSize == 2      \* batch_group_size ranges over 1..MaxGroupSize
MaxTicks == 2          \* one attempt of main lasts 0..MaxTicks ticks
TickMs == 150000       \* milliseconds per tick

\* ---- program constants ----
StopMaxAttemptNumber == 7
StopMaxDelay == 300000
ZfillWidth == 6

\* the folder parameters of main (TARGET_SOURCE_FOLDER, ...), pairwise distinct
target_source_folder == "source"
target_unpack_folder == "unpack"
target_load_folder == "load"
target_batch_folder == "batch"
file_type == ".tar.gz"

VARIABLES
    \* parameters of the deployment (environment of __main__)
    source_file_batch_length, batch_group_size, target_root_path,
    target_gcs_path, source_url_gcs,
    \* the object store and the local staging area
    bucket, fs, dirs,
    \* the invocation in flight and the retry wrapper around main
    pipeline_name, batch_ordinal, pc, attempt_number,
    delay_since_first_attempt_ms, error,
    \* locals of generate_batch_metadata_files / process_batch_metadata_files /
    \* process_batch
    blobs, blob_pos, df_filelist, file_counter, batch_number,
    total_number_files_in_bucket, file_group_ordinal, batch_filename, rec_pos,
    \* history: manifests written by the current attempt, keys uploaded by the
    \* current invocation, manifests in the store when the last generate run over
    \* the present source set succeeded, add_id_column calls of the attempt
    written, run_keys, prev_gen, transformed,
    \* a group of run_batch_data invocations that run side by side: the
    \* invocations that are not taking the step at hand, by batch_ordinal;
    \* history of the group: <<ordinal, manifest>> for every process_batch call
    \* that returned, <<ordinal, key>> for every load object uploaded,
    \* <<ordinal, path>> for every staged path a process_batch call wrote, read
    \* or deleted
    others, processed, uploads, touched

params == <<source_file_batch_length, batch_group_size, target_root_path,
            target_gcs_path, source_url_gcs>>
stores == <<bucket, fs, dirs>>
invocation == <<pipeline_name, batch_ordinal>>
retry == <<attempt_number, delay_since_first_attempt_ms>>
locals == <<blobs, blob_pos, df_filelist, file_counter, batch_number,
            total_number_files_in_bucket, file_group_ordinal, batch_filename,
            rec_pos>>
history == <<written, run_keys, prev_gen, transformed>>
group == <<others, processed, uploads, touched>>
vars == <<params, stores, invocation, retry, pc, error, locals, history, group>>

\* ---- finite maps with a changing domain ----
EmptyMap == [x \in {} |-> x]
Put(f, k, v) == [x \in DOMAIN f \cup {k} |-> IF x = k THEN v ELSE f[x]]
Drop(f, K) == [x \in DOMAIN f \ K |-> f[x]]

\* ---- names and listing order ----
RECURSIVE LexLess(_, _)
LexLess(s, t) ==
    IF s = <<>> THEN t # <<>>
    ELSE IF t = <<>> THEN FALSE
    ELSE s[1] < t[1] \/ (s[1] = t[1] /\ LexLess(Tail(s), Tail(t)))

\* keys of one listing differ in their stems only
KeyLess(k1, k2) == LexLess(k1[3].stem, k2[3].stem)

RECURSIVE SortKeys(_)
SortKeys(K) ==
    IF K = {} THEN <<>>
    ELSE LET m == CHOOSE x \in K : \A y \in K : ~KeyLess(y, x)
         IN <<m>> \o SortKeys(K \ {m})

\* bucket.list_blobs(prefix=...): the keys under a path, in name order
ListBlobs(b, prefix) ==
    SortKeys({k \in DOMAIN b : SubSeq(k, 1, Len(prefix)) = prefix})

\* str.find(file_type) on a basename: -1 when absent, else the offset
BasenameFind(name) ==
    IF name.ext = file_type
    THEN (IF name.base = "" THEN 0 ELSE 1) + Len(name.stem)
    ELSE -1

\* str.find(file_type) on the whole blob name "<top>/<folder>/<basename>"
FilenameFind(k) ==
    IF BasenameFind(k[3]) < 0 THEN -1
    ELSE Len(<<k[1], k[2]>>) + BasenameFind(k[3])

\* str(n): the decimal digits of n
RECURSIVE Digits(_)
Digits(n) == IF n < 10 THEN <<n>> ELSE Digits(n \div 10) \o <<n % 10>>

\* str(n).zfill(w)
Zfill(n, w) ==
    LET d == Digits(n)
    IN IF Len(d) >= w THEN d ELSE [i \in 1..(w - Len(d)) |-> 0] \o d

TarName(stem) == [base |-> "", stem |-> stem, ext |-> file_type]
TxtName(stem) == [base |-> "", stem |-> stem, ext |-> ".txt"]

\* the out.log of every source archive: a line that begins with the marker
\* {"frame", a line without it, and a line that holds it further to the right
Tok(s) == [t |-> s, g |-> <<>>]
SampleLog == << <<Tok("{"), Tok("\"frame\""), Tok(": 1}")>>, <<Tok("text")>>,
                <<Tok("["), Tok("{"), Tok("\"frame\""), Tok(": 2}]")>> >>

NoError == [kind |-> "none", attempt |-> 0]

BlankLocals ==
    /\ blobs = <<>> /\ blob_pos = 0 /\ df_filelist = <<>> /\ file_counter = 0
    /\ batch_number = 0 /\ total_number_files_in_bucket = 0
    /\ file_group_ordinal = 0 /\ batch_filename = <<>> /\ rec_pos = 0

\* the stem "nan": the text read_csv takes for a missing value and str() prints
\* for one; the symbol 0 sorts ahead of the numbered symbols
NanStem == <<0>>

\* stems of the source objects: the empty one, "nan", and <<1>> .. <<MaxObjects>>
Stems == {<<>>, NanStem} \cup {<<i>> : i \in 1..MaxObjects}
SourceNames == {TarName(s) : s \in Stems} \cup {TxtName(<<2>>)}

\* the objects the source prefix can start with: at most one object per stem
SourceSets ==
    {S \in SUBSET SourceNames : \A x, y \in S : x.stem = y.stem => x = y}

Init ==
    /\ source_file_batch_length \in 1..MaxBatchLength
    /\ batch_group_size \in 1..MaxGroupSize
    /\ target_root_path \in {"data", "work"}
    /\ target_gcs_path = "data"
    /\ source_url_gcs \in {<<"pub", target_source_folder>>,
                           <<"data", target_source_folder>>}
    /\ \E S \in SourceSets :
         bucket = [k \in {source_url_gcs \o <<n>> : n \in S} |-> SampleLog]
    /\ fs = EmptyMap
    /\ dirs = {}
    /\ pipeline_name = ""
    /\ batch_ordinal = 0
    /\ pc = "idle"
    /\ attempt_number = 0
    /\ delay_since_first_attempt_ms = 0
    /\ error = NoError
    /\ BlankLocals
    /\ written = <<>>
    /\ run_keys = {}
    /\ prev_gen = <<>>
    /\ transformed = <<>>
    /\ others = EmptyMap
    /\ processed = {}
    /\ uploads = {}
    /\ touched = {}

ResetLocals ==
    /\ blobs' = <<>> /\ blob_pos' = 0 /\ df_filelist' = <<>> /\ file_counter' = 0
    /\ batch_number' = 0 /\ total_number_files_in_bucket' = 0
    /\ file_group_ordinal' = 0 /\ batch_filename' = <<>> /\ rec_pos' = 0

\* ---- the object store ----
\* blob.upload_from_filename: the object at the key is created or replaced
UploadFileToGcs(b, key, body) == Put(b, key, body)

\* save_to_new_file: df.to_csv writes the file anew
SaveToNewFile_Appending(f, file_path, df) ==
    Put(f, file_path, (IF file_path \in DOMAIN f THEN f[file_path] ELSE <<>>) \o df)
SaveToNewFile(f, file_path, df) == Put(f, file_path, df)

\* os.path.split(gcs_path)[0]
OsPathSplitHead(path) == SubSeq(path, 1, Len(path) - 1)

\* remove_gcs_path: deletes every object under "<drop_path>/"
RemoveGcsPath(b, gcs_path) ==
    LET drop_path == OsPathSplitHead(gcs_path)
    IN Drop(b, {k \in DOMAIN b : SubSeq(k, 1, Len(drop_path)) = drop_path})

\* count_files_in_gcs_bucket: lists the whole bucket
CountFilesInGcsBucket(b) ==
    Cardinality({k \in DOMAIN b : BasenameFind(k[3]) > 0})

\* ---- environment ----
PipelineNames == {"transfer_source", "generate_batch_metadata_files",
                  "run_batch_data", "other"}

\* __main__: a container is started with PIPELINE_NAME and BATCH_ORDINAL set;
\* it has a staging area of its own
Invoke(p, b) ==
    /\ pc = "idle"
    /\ pipeline_name' = p
    /\ batch_ordinal' = b
    /\ pc' = "main"
    /\ attempt_number' = 1
    /\ delay_since_first_attempt_ms' = 0
    /\ error' = NoError
    /\ fs' = EmptyMap
    /\ dirs' = {}
    /\ ResetLocals
    /\ written' = <<>>
    /\ run_keys' = {}
    /\ transformed' = <<>>
    /\ processed' = {}
    /\ uploads' = {}
    /\ touched' = {}
    /\ UNCHANGED <<params, others, bucket, prev_gen>>

\* between two invocations an object disappears from the source prefix
SourceShrinks(k) ==
    /\ pc = "idle"
    /\ k \in DOMAIN bucket
    /\ SubSeq(k, 1, 2) = source_url_gcs
    /\ bucket' = Drop(bucket, {k})
    /\ prev_gen' = <<>>
    /\ UNCHANGED <<params, group, fs, dirs, invocation, retry, pc, error, locals,
                   written, run_keys, transformed>>

\* ---- main and its phases ----
\* an exception leaves the attempt of main
Raise_Swallowed(kind) ==
    /\ error' = [kind |-> kind, attempt |-> attempt_number]
    /\ pc' = "returned"
Raise(kind) ==
    /\ error' = [kind |-> kind, attempt |-> attempt_number]
    /\ pc' = "raised"

\* generate_folder_hierarchy: makedirs of whatever is absent
GenerateFolderHierarchy_NoBatchFolder(d) ==
    d \cup {"root", target_source_folder, target_unpack_folder,
            target_load_folder}
GenerateFolderHierarchy(d) ==
    d \cup {"root", target_source_folder, target_unpack_folder,
            target_load_folder, target_batch_folder}

\* main: the staging layout, then the dispatch on pipeline_name
Main_ElseRunsBatch ==
    /\ pc = "main"
    /\ dirs' = GenerateFolderHierarchy(dirs)
    /\ pc' = IF pipeline_name = "transfer_source" THEN "transfer"
             ELSE IF pipeline_name = "generate_batch_metadata_files"
                  THEN "gen_clean"
             ELSE IF pipeline_name = "run_batch_data" THEN "batch_list"
             ELSE "batch_list"
    /\ UNCHANGED <<params, group, bucket, fs, invocation, retry, error, locals, history>>
Main ==
    /\ pc = "main"
    /\ dirs' = GenerateFolderHierarchy(dirs)
    /\ pc' = IF pipeline_name = "transfer_source" THEN "transfer"
             ELSE IF pipeline_name = "generate_batch_metadata_files"
                  THEN "gen_clean"
             ELSE IF pipeline_name = "run_batch_data" THEN "batch_list"
             ELSE "returned"
    /\ UNCHANGED <<params, group, bucket, fs, invocation, retry, error, locals, history>>

\* the public bucket gcs-public-data-trafficvision is the top "pub" of the
\* store; the destination data/trafficvision/<target_source_folder> is the
\* folder target_source_folder of the top "data"
TransferSource == "pub"
TransferDestination == <<"data", target_source_folder>>

\* gsutil -m cp -n: every object of the source is copied to the destination
\* folder unless an object of that name is there already
GsutilCpNoClobber(b) ==
    LET names == {k[3] : k \in {x \in DOMAIN b : x[1] = TransferSource}}
        new == {n \in names : TransferDestination \o <<n>> \notin DOMAIN b}
    IN [k \in DOMAIN b \cup {TransferDestination \o <<n>> : n \in new} |->
           IF k \in DOMAIN b THEN b[k]
           ELSE b[<<TransferSource, target_source_folder, k[3]>>]]

\* main, transfer_source branch: copy_source_files_gcs_to_gcs, then main returns
CopySourceFilesGcsToGcs ==
    /\ pc = "transfer"
    /\ bucket' = GsutilCpNoClobber(bucket)
    /\ pc' = "returned"
    /\ UNCHANGED <<params, group, fs, dirs, invocation, retry, error, locals, history>>

\* main, generate_batch_metadata_files branch: the two remove_gcs_path calls
RemoveStalePaths ==
    /\ pc = "gen_clean"
    /\ bucket' = RemoveGcsPath(
                     RemoveGcsPath(bucket, <<target_gcs_path, target_load_folder>>),
                     <<target_gcs_path, target_batch_folder>>)
    /\ pc' = "gen_begin"
    /\ UNCHANGED <<params, group, fs, dirs, invocation, retry, error, locals, history>>

InitialBatchNumber == 0

\* generate_batch_metadata_files up to its loop
GenerateBegin ==
    /\ pc = "gen_begin"
    /\ total_number_files_in_bucket' = CountFilesInGcsBucket(bucket)
    /\ file_counter' = 0
    /\ batch_number' = InitialBatchNumber
    /\ df_filelist' = <<>>
    /\ blobs' = ListBlobs(bucket, source_url_gcs)
    /\ blob_pos' = 1
    /\ pc' = "gen_loop"
    /\ UNCHANGED <<params, group, stores, invocation, retry, error, file_group_ordinal,
                   batch_filename, rec_pos, history>>

\* batch_metadata-<batch_number_zfill>.txt
BatchMetadataName_AfterIncrement(n) ==
    [base |-> "batch_metadata-", stem |-> Zfill(n + 1, ZfillWidth), ext |-> ".txt"]
BatchMetadataName(n) ==
    [base |-> "batch_metadata-", stem |-> Zfill(n, ZfillWidth), ext |-> ".txt"]

\* str(filenm).replace(file_type, "")
Guid(filenm) == filenm.stem

\* the test that opens a new group
GroupBoundary_Late(counter, total) ==
    \/ counter % (source_file_batch_length + 1) = 0
    \/ counter = total
GroupBoundary(counter, total) ==
    \/ counter % source_file_batch_length = 0
    \/ counter = total

\* the blob under the cursor matches and makes the loop write a manifest
FlushDue_FirstObjectToo ==
    /\ pc = "gen_loop"
    /\ blob_pos <= Len(blobs)
    /\ FilenameFind(blobs[blob_pos]) > 0
    /\ GroupBoundary(file_counter, total_number_files_in_bucket)
FlushDue ==
    /\ pc = "gen_loop"
    /\ blob_pos <= Len(blobs)
    /\ FilenameFind(blobs[blob_pos]) > 0
    /\ GroupBoundary(file_counter, total_number_files_in_bucket)
    /\ batch_number > 0

\* one iteration of the loop over bucket.list_blobs(prefix=prefix_folder)
GenerateStep ==
    /\ pc = "gen_loop"
    /\ blob_pos <= Len(blobs)
    /\ LET filename == blobs[blob_pos]
           name == BatchMetadataName(batch_number)
           gcs_key == <<target_root_path, target_batch_folder, name>>
           filenm == filename[3]
           path == source_url_gcs \o <<filenm>>
           boundary == GroupBoundary(file_counter, total_number_files_in_bucket)
           batch_number_new == IF boundary THEN batch_number + 1 ELSE batch_number
           row == [pathname |-> path, guid |-> Guid(filenm),
                   batchnumber |-> batch_number_new]
           saved == SaveToNewFile(fs, <<target_batch_folder, name>>, df_filelist)
           uploaded == saved[<<target_batch_folder, name>>]
       IN IF FilenameFind(filename) > 0
          THEN /\ IF FlushDue
                  THEN /\ fs' = saved
                       /\ bucket' = UploadFileToGcs(bucket, gcs_key, uploaded)
                       /\ written' = Append(written,
                                        [key |-> gcs_key, body |-> uploaded])
                       /\ run_keys' = run_keys \cup {gcs_key}
                  ELSE UNCHANGED <<bucket, fs, written, run_keys>>
               /\ df_filelist' = IF boundary THEN <<row>>
                                 ELSE Append(df_filelist, row)
               /\ batch_number' = batch_number_new
               /\ file_counter' = file_counter + 1
          ELSE UNCHANGED <<bucket, fs, written, run_keys, df_filelist,
                           batch_number, file_counter>>
    /\ blob_pos' = blob_pos + 1
    /\ UNCHANGED <<params, group, dirs, invocation, retry, pc, error, blobs,
                   total_number_files_in_bucket, file_group_ordinal,
                   batch_filename, rec_pos, prev_gen, transformed>>

\* the listing is exhausted: generate_batch_metadata_files and main return
GenerateReturn ==
    /\ pc = "gen_loop"
    /\ blob_pos > Len(blobs)
    /\ pc' = "returned"
    /\ UNCHANGED <<params, group, stores, invocation, retry, error, locals, history>>

\* ---- run_batch_data ----
\* file_group_ordinal += 1, back to 1 past batch_group_size
NextFileGroupOrdinal_NoReset(ordinal, group_size) == ordinal + 1
NextFileGroupOrdinal_EarlyReset(ordinal, group_size) ==
    IF ordinal + 1 >= group_size THEN 1 ELSE ordinal + 1
NextFileGroupOrdinal(ordinal, group_size) ==
    IF ordinal + 1 > group_size THEN 1 ELSE ordinal + 1

\* the value of file_group_ordinal when the loop reaches the i-th listed blob
RECURSIVE FileGroupOrdinalAt(_, _)
FileGroupOrdinalAt(i, group_size) ==
    IF i <= 1 THEN 1
    ELSE NextFileGroupOrdinal(FileGroupOrdinalAt(i - 1, group_size), group_size)

\* process_batch_metadata_files up to its loop
BatchList ==
    /\ pc = "batch_list"
    /\ blobs' = ListBlobs(bucket, <<target_gcs_path, target_batch_folder>>)
    /\ blob_pos' = 1
    /\ file_group_ordinal' = 1
    /\ pc' = "batch_loop"
    /\ UNCHANGED <<params, group, stores, invocation, retry, error, df_filelist,
                   file_counter, batch_number, total_number_files_in_bucket,
                   batch_filename, rec_pos, history>>

\* the end of one iteration of the loop over the manifests
NextBlob ==
    /\ blob_pos' = blob_pos + 1
    /\ file_group_ordinal' =
           NextFileGroupOrdinal(file_group_ordinal, batch_group_size)
    /\ batch_filename' = <<>>
    /\ pc' = "batch_loop"

\* the head of one iteration: the manifest is handed to process_batch or skipped
BatchNext ==
    /\ pc = "batch_loop"
    /\ blob_pos <= Len(blobs)
    /\ IF file_group_ordinal = batch_ordinal
       THEN /\ batch_filename' = blobs[blob_pos]
            /\ pc' = "pb_manifest"
            /\ UNCHANGED <<blob_pos, file_group_ordinal>>
       ELSE NextBlob
    /\ UNCHANGED <<params, group, stores, invocation, retry, error, blobs, df_filelist,
                   file_counter, batch_number, total_number_files_in_bucket,
                   rec_pos, history>>

BatchReturn ==
    /\ pc = "batch_loop"
    /\ blob_pos > Len(blobs)
    /\ pc' = "returned"
    /\ UNCHANGED <<params, group, stores, invocation, retry, error, locals, history>>

\* the guid column after to_csv and read_csv: an empty field and the field
\* "nan" are both read as NaN, which str() prints as "nan"
ReadCsv(rows) ==
    [i \in DOMAIN rows |->
        [rows[i] EXCEPT !.guid = IF @ = <<>> THEN NanStem ELSE @]]

DirName(stem) == [base |-> "", stem |-> stem, ext |-> ""]
OutName(guid) == [base |-> "out", stem |-> guid, ext |-> ".log"]

\* staged paths of the record under the cursor
CurrentRow == df_filelist[rec_pos]
SourceTarFile == <<target_source_folder, CurrentRow.pathname[3]>>
SourceJsonDir == <<target_unpack_folder, DirName(CurrentRow.guid)>>
DestinationJsonFile == <<target_load_folder, OutName(CurrentRow.guid)>>
LocalBatchFile == <<target_batch_folder, batch_filename[3]>>

\* process_batch: the manifest is downloaded and read
ProcessBatchOpen ==
    /\ pc = "pb_manifest"
    /\ IF batch_filename \in DOMAIN bucket
       THEN /\ fs' = Put(fs, LocalBatchFile, bucket[batch_filename])
            /\ df_filelist' = ReadCsv(bucket[batch_filename])
            /\ IF Len(bucket[batch_filename]) = 0
               THEN /\ NextBlob /\ rec_pos' = 0 /\ UNCHANGED error
                    /\ processed' = processed \cup
                                      {<<batch_ordinal, batch_filename>>}
               ELSE /\ rec_pos' = 1
                    /\ pc' = "pb_record"
                    /\ UNCHANGED <<blob_pos, file_group_ordinal, batch_filename,
                                   error, processed>>
       ELSE /\ Raise("NotFound")
            /\ UNCHANGED <<fs, df_filelist, blob_pos, file_group_ordinal,
                           batch_filename, rec_pos, processed>>
    /\ touched' = touched \cup {<<batch_ordinal, LocalBatchFile>>}
    /\ UNCHANGED <<params, others, uploads, bucket, dirs, invocation, retry, blobs, file_counter,
                   batch_number, total_number_files_in_bucket, history>>

\* process_batch, one record: the archive is downloaded to the source folder
ProcessRecordDownload ==
    /\ pc = "pb_record"
    /\ IF CurrentRow.pathname \in DOMAIN bucket
       THEN /\ fs' = Put(fs, SourceTarFile, bucket[CurrentRow.pathname])
            /\ pc' = "pb_extract"
            /\ UNCHANGED error
       ELSE /\ Raise("NotFound")
            /\ UNCHANGED fs
    /\ touched' = touched \cup {<<batch_ordinal, SourceTarFile>>}
    /\ UNCHANGED <<params, others, processed, uploads, bucket, dirs, invocation,
                   retry, locals, history>>

\* tarfile.extractall: <stem of the archive>/out.log appears under unpack
ProcessRecordExtract ==
    /\ pc = "pb_extract"
    /\ fs' = Put(fs, <<target_unpack_folder,
                       DirName(Guid(CurrentRow.pathname[3]))>>, fs[SourceTarFile])
    /\ pc' = "pb_transform"
    /\ touched' = touched \cup
                     {<<batch_ordinal, SourceTarFile>>,
                      <<batch_ordinal, <<target_unpack_folder,
                                         DirName(Guid(CurrentRow.pathname[3]))>>>>}
    /\ UNCHANGED <<params, others, processed, uploads, bucket, dirs, invocation,
                   retry, error, locals, history>>

\* ---- add_id_column ----
\* the shell command string, fragment by fragment: blanks separate words, and
\* the closing quote of the sed script is followed by the file name at once
Text(s) == [kind |-> "text", val |-> s]
Blank == [kind |-> "blank", val |-> " "]
AddIdCommand(guid, destination_json_file) ==
    << Text("sed"), Blank, Text("-i"), Blank, Text("-e"), Blank,
       [kind |-> "quoted", val |-> guid],
       [kind |-> "path", val |-> destination_json_file] >>

\* the shell splits the command into words at the blanks
RECURSIVE ShellWords(_, _, _)
ShellWords(cmd, word, words) ==
    LET closed == IF Len(word) = 0 THEN words ELSE Append(words, word)
    IN IF Len(cmd) = 0 THEN closed
       ELSE IF Head(cmd).kind = "blank" THEN ShellWords(Tail(cmd), <<>>, closed)
       ELSE ShellWords(Tail(cmd), Append(word, Head(cmd)), words)

\* exit status of sed -i -e SCRIPT FILE...: text glued to the script is read
\* as flags of its s command and rejected; without a file operand there is no
\* input to edit
SedExit(argv) ==
    IF Len(argv) < 4 \/ Len(argv[4]) # 1 THEN 1
    ELSE IF Len(argv) < 5 THEN 1
    ELSE 0

\* s/{"frame"/{"id": "<guid>", "frame"/g on one line
IdTok(guid) == [t |-> "\"id\": ", g |-> guid]
RECURSIVE SedLine(_, _)
SedLine(line, guid) ==
    IF Len(line) < 2 THEN line
    ELSE IF line[1] = Tok("{") /\ line[2] = Tok("\"frame\"")
         THEN <<line[1], IdTok(guid), line[2]>> \o SedLine(Tail(Tail(line)), guid)
         ELSE <<line[1]>> \o SedLine(Tail(line), guid)

SedSubstitute(lines, guid) == [i \in DOMAIN lines |-> SedLine(lines[i], guid)]

\* process_batch, one record: add_id_column, upload_file_to_gcs and the unlinks
ProcessRecordTransform ==
    /\ pc = "pb_transform"
    /\ LET guid == CurrentRow.guid
           copied == Put(fs, DestinationJsonFile, fs[SourceJsonDir])
           argv == ShellWords(AddIdCommand(guid, DestinationJsonFile), <<>>, <<>>)
           edited == Put(copied, DestinationJsonFile,
                         SedSubstitute(copied[DestinationJsonFile], guid))
           cleaned == Drop(edited, {SourceTarFile, DestinationJsonFile,
                                    SourceJsonDir})
           copy == {<<batch_ordinal, SourceJsonDir>>,
                    <<batch_ordinal, DestinationJsonFile>>}
           unlinks == copy \cup {<<batch_ordinal, SourceTarFile>>,
                                 <<batch_ordinal, LocalBatchFile>>}
       IN IF SourceJsonDir \notin DOMAIN fs
          THEN /\ Raise("FileNotFoundError")
               /\ UNCHANGED <<touched, bucket, fs, blob_pos, file_group_ordinal,
                              batch_filename, rec_pos, run_keys, transformed,
                              processed, uploads>>
          ELSE IF SedExit(argv) # 0
          THEN /\ fs' = copied
               /\ transformed' = Append(transformed,
                      [guid |-> guid, ok |-> FALSE, inp |-> fs[SourceJsonDir],
                       out |-> copied[DestinationJsonFile]])
               /\ Raise("CalledProcessError")
               /\ touched' = touched \cup copy
               /\ UNCHANGED <<bucket, blob_pos, file_group_ordinal,
                              batch_filename, rec_pos, run_keys, processed,
                              uploads>>
          ELSE /\ transformed' = Append(transformed,
                      [guid |-> guid, ok |-> TRUE, inp |-> fs[SourceJsonDir],
                       out |-> edited[DestinationJsonFile]])
               /\ bucket' = UploadFileToGcs(bucket,
                                <<target_gcs_path, target_load_folder,
                                  OutName(guid)>>, edited[DestinationJsonFile])
               /\ run_keys' = run_keys \cup
                                {<<target_gcs_path, target_load_folder,
                                   OutName(guid)>>}
               /\ touched' = touched \cup unlinks
               /\ uploads' = uploads \cup
                                {<<batch_ordinal,
                                   <<target_gcs_path, target_load_folder,
                                     OutName(guid)>>>>}
               /\ IF LocalBatchFile \notin DOMAIN cleaned
                  THEN /\ fs' = cleaned
                       /\ Raise("FileNotFoundError")
                       /\ UNCHANGED <<blob_pos, file_group_ordinal,
                                      batch_filename, rec_pos, processed>>
                  ELSE /\ fs' = Drop(cleaned, {LocalBatchFile})
                       /\ UNCHANGED error
                       /\ IF rec_pos < Len(df_filelist)
                          THEN /\ rec_pos' = rec_pos + 1
                               /\ pc' = "pb_record"
                               /\ UNCHANGED <<blob_pos, file_group_ordinal,
                                              batch_filename, processed>>
                          ELSE /\ NextBlob /\ rec_pos' = 0
                               /\ processed' = processed \cup
                                      {<<batch_ordinal, batch_filename>>}
    /\ UNCHANGED <<params, others, dirs, invocation, retry, blobs, df_filelist,
                   file_counter, batch_number, total_number_files_in_bucket,
                   written, prev_gen>>

\* ---- failures of the store and of the archive ----
\* a list, delete, upload or download call, or the gsutil command, raises
StorageError ==
    /\ \/ pc \in {"transfer", "gen_clean", "gen_begin", "batch_list",
                  "pb_manifest", "pb_record"}
       \/ FlushDue
    /\ fs' = IF FlushDue
             THEN SaveToNewFile(fs, <<target_batch_folder,
                                     BatchMetadataName(batch_number)>>, df_filelist)
             ELSE fs
    /\ Raise("storage")
    /\ UNCHANGED <<params, group, bucket, dirs, invocation, retry, locals, history>>

\* tarfile.open or extractall raises on a corrupt archive
ExtractError ==
    /\ pc = "pb_extract"
    /\ Raise("extract")
    /\ UNCHANGED <<params, group, stores, invocation, retry, locals, history>>

\* ---- the retry wrapper around main ----
\* @retry(stop_max_attempt_number=7, stop_max_delay=300000): stop after the
\* attempt that reaches either limit
ShouldStop_OneMore(attempts, delay) ==
    attempts > StopMaxAttemptNumber \/ delay >= StopMaxDelay
ShouldStop(attempts, delay) ==
    attempts >= StopMaxAttemptNumber \/ delay >= StopMaxDelay

Manifests(b) == [k \in {x \in DOMAIN b : x[2] = target_batch_folder} |-> b[k]]

ClearAttempt ==
    /\ ResetLocals
    /\ written' = <<>>
    /\ transformed' = <<>>

\* the attempt returned: the wrapper returns its result
RetryReturn ==
    /\ pc = "returned"
    /\ pc' = "exit_ok"
    /\ prev_gen' = IF pipeline_name = "generate_batch_metadata_files"
                   THEN <<Manifests(bucket)>>
                   ELSE prev_gen
    /\ ClearAttempt
    /\ run_keys' = {}
    /\ UNCHANGED <<params, group, stores, invocation, retry, error>>

\* the attempt raised and a limit is reached: the error is raised to the caller
RetryStop_ReportsSuccess ==
    /\ pc = "raised"
    /\ \E d \in 0..MaxTicks :
         /\ delay_since_first_attempt_ms' = delay_since_first_attempt_ms + d * TickMs
         /\ ShouldStop(attempt_number, delay_since_first_attempt_ms')
    /\ pc' = "exit_ok"
    /\ ClearAttempt
    /\ run_keys' = {}
    /\ UNCHANGED <<params, group, stores, invocation, attempt_number, error, prev_gen>>
RetryStop ==
    /\ pc = "raised"
    /\ \E d \in 0..MaxTicks :
         /\ delay_since_first_attempt_ms' = delay_since_first_attempt_ms + d * TickMs
         /\ ShouldStop(attempt_number, delay_since_first_attempt_ms')
    /\ pc' = "exit_err"
    /\ ClearAttempt
    /\ run_keys' = {}
    /\ UNCHANGED <<params, group, stores, invocation, attempt_number, error, prev_gen>>

\* the attempt raised and no limit is reached: main is called again
RetryAgain ==
    /\ pc = "raised"
    /\ \E d \in 0..MaxTicks :
         /\ delay_since_first_attempt_ms' = delay_since_first_attempt_ms + d * TickMs
         /\ ~ShouldStop(attempt_number, delay_since_first_attempt_ms')
    /\ attempt_number' = attempt_number + 1
    /\ pc' = "main"
    /\ ClearAttempt
    /\ UNCHANGED <<params, group, stores, invocation, error, run_keys, prev_gen>>

\* the process exits, with status zero or not, and its container is gone; no
\* other invocation runs beside it
Terminate ==
    /\ pc \in {"exit_ok", "exit_err"}
    /\ DOMAIN others = {}
    /\ pc' = "idle"
    /\ pipeline_name' = ""
    /\ batch_ordinal' = 0
    /\ attempt_number' = 0
    /\ delay_since_first_attempt_ms' = 0
    /\ error' = NoError
    /\ fs' = EmptyMap
    /\ dirs' = {}
    /\ touched' = {}
    /\ UNCHANGED <<params, others, processed, uploads, bucket, locals, history>>

\* the scheduler runs transfer_source ahead of the generate phase: it is
\* started on a destination that holds no manifest yet
Next ==
    \/ \E p \in PipelineNames, b \in 1..(batch_group_size + 1) :
         /\ p # "run_batch_data" => b = 1
         /\ p = "transfer_source" => DOMAIN Manifests(bucket) = {}
         /\ Invoke(p, b)
    \/ \E k \in DOMAIN bucket : SourceShrinks(k)
    \/ Main
    \/ CopySourceFilesGcsToGcs
    \/ RemoveStalePaths
    \/ GenerateBegin
    \/ GenerateStep
    \/ GenerateReturn
    \/ BatchList
    \/ BatchNext
    \/ BatchReturn
    \/ ProcessBatchOpen
    \/ ProcessRecordDownload
    \/ ProcessRecordExtract
    \/ ProcessRecordTransform
    \/ StorageError
    \/ ExtractError
    \/ RetryReturn
    \/ RetryStop
    \/ RetryAgain
    \/ Terminate

Spec == Init /\ [][Next]_vars

\* the steps of the process itself: it is single-threaded and blocks on every
\* call, so an invocation that is started keeps taking steps until it exits
ProcessStep ==
    \/ Main
    \/ CopySourceFilesGcsToGcs
    \/ RemoveStalePaths
    \/ GenerateBegin
    \/ GenerateStep
    \/ GenerateReturn
    \/ BatchList
    \/ BatchNext
    \/ BatchReturn
    \/ ProcessBatchOpen
    \/ ProcessRecordDownload
    \/ ProcessRecordExtract
    \/ ProcessRecordTransform
    \/ RetryReturn
    \/ RetryStop
    \/ RetryAgain

FairSpec == Spec /\ WF_vars(ProcessStep)

\* ---- a group of run_batch_data invocations side by side ----
\* the state of one invocation: its place in main, its retry wrapper, its
\* locals and its staging area (a container of its own)
FreshContext ==
    [pc |-> "main", attempt_number |-> 1, delay_since_first_attempt_ms |-> 0,
     error |-> NoError, blobs |-> <<>>, blob_pos |-> 0, df_filelist |-> <<>>,
     file_group_ordinal |-> 0, batch_filename |-> <<>>, rec_pos |-> 0,
     fs |-> EmptyMap, dirs |-> {}, run_keys |-> {}, transformed |-> <<>>]

CurrentContext ==
    [pc |-> pc, attempt_number |-> attempt_number,
     delay_since_first_attempt_ms |-> delay_since_first_attempt_ms,
     error |-> error, blobs |-> blobs, blob_pos |-> blob_pos,
     df_filelist |-> df_filelist, file_group_ordinal |-> file_group_ordinal,
     batch_filename |-> batch_filename, rec_pos |-> rec_pos,
     fs |-> fs, dirs |-> dirs, run_keys |-> run_keys,
     transformed |-> transformed]

\* the scheduler starts batch_group_size containers with PIPELINE_NAME
\* run_batch_data and BATCH_ORDINAL 1 .. batch_group_size, once the generate
\* phase has succeeded
LaunchGroup ==
    /\ pc = "idle"
    /\ DOMAIN others = {}
    /\ prev_gen # <<>>
    /\ pipeline_name' = "run_batch_data"
    /\ batch_ordinal' = 1
    /\ pc' = "main"
    /\ attempt_number' = 1
    /\ delay_since_first_attempt_ms' = 0
    /\ error' = NoError
    /\ fs' = EmptyMap
    /\ dirs' = {}
    /\ ResetLocals
    /\ written' = <<>>
    /\ run_keys' = {}
    /\ transformed' = <<>>
    /\ others' = [b \in 2..batch_group_size |-> FreshContext]
    /\ processed' = {}
    /\ uploads' = {}
    /\ touched' = {}
    /\ UNCHANGED <<params, bucket, prev_gen>>

\* the next step is taken by the invocation with ordinal b: the processes run
\* on their own and their steps interleave in any order
Switch(b) ==
    /\ b \in DOMAIN others
    /\ others' = [x \in (DOMAIN others \ {b}) \cup {batch_ordinal} |->
                     IF x = batch_ordinal THEN CurrentContext ELSE others[x]]
    /\ batch_ordinal' = b
    /\ pc' = others[b].pc
    /\ attempt_number' = others[b].attempt_number
    /\ delay_since_first_attempt_ms' = others[b].delay_since_first_attempt_ms
    /\ error' = others[b].error
    /\ blobs' = others[b].blobs
    /\ blob_pos' = others[b].blob_pos
    /\ df_filelist' = others[b].df_filelist
    /\ file_group_ordinal' = others[b].file_group_ordinal
    /\ batch_filename' = others[b].batch_filename
    /\ rec_pos' = others[b].rec_pos
    /\ fs' = others[b].fs
    /\ dirs' = others[b].dirs
    /\ run_keys' = others[b].run_keys
    /\ transformed' = others[b].transformed
    /\ UNCHANGED <<params, bucket, pipeline_name, file_counter, batch_number,
                   total_number_files_in_bucket, written, prev_gen, processed,
                   uploads, touched>>

\* every process of the group has exited
GroupExited ==
    /\ DOMAIN others # {}
    /\ pc \in {"exit_ok", "exit_err"}
    /\ \A b \in DOMAIN others : others[b].pc \in {"exit_ok", "exit_err"}

\* the containers of the group are gone
GroupEnd ==
    /\ GroupExited
    /\ pc' = "idle"
    /\ pipeline_name' = ""
    /\ batch_ordinal' = 0
    /\ attempt_number' = 0
    /\ delay_since_first_attempt_ms' = 0
    /\ error' = NoError
    /\ fs' = EmptyMap
    /\ dirs' = {}
    /\ others' = EmptyMap
    /\ touched' = {}
    /\ UNCHANGED <<params, bucket, locals, history, processed, uploads>>

\* the manifests are uploaded where the batch phase lists them, and the
\* source archives are outside the destination path
InitGroup ==
    /\ Init
    /\ target_root_path = target_gcs_path
    /\ source_url_gcs = <<TransferSource, target_source_folder>>

\* the steps of the group: no call of the store and no archive fails, so an
\* attempt ends in an error only where the code itself raises
NextGroup ==
    \/ Invoke("generate_batch_metadata_files", 1)
    \/ LaunchGroup
    \/ \E b \in DOMAIN others : Switch(b)
    \/ GroupEnd
    \/ Main
    \/ RemoveStalePaths
    \/ GenerateBegin
    \/ GenerateStep
    \/ GenerateReturn
    \/ BatchList
    \/ BatchNext
    \/ BatchReturn
    \/ ProcessBatchOpen
    \/ ProcessRecordDownload
    \/ ProcessRecordExtract
    \/ ProcessRecordTransform
    \/ RetryReturn
    \/ RetryStop
    \/ RetryAgain
    \/ Terminate

SpecGroup == InitGroup /\ [][NextGroup]_vars

\* ---- a group that shares one staging root ----
\* the invocations are given the same TARGET_ROOT_PATH on one file system: the
\* staged files and directories are common to them, the rest of the state of
\* an invocation is its own
SwitchShared(b) ==
    /\ b \in DOMAIN others
    /\ others' = [x \in (DOMAIN others \ {b}) \cup {batch_ordinal} |->
                     IF x = batch_ordinal
                     THEN [CurrentContext EXCEPT !.fs = EmptyMap, !.dirs = {}]
                     ELSE others[x]]
    /\ batch_ordinal' = b
    /\ pc' = others[b].pc
    /\ attempt_number' = others[b].attempt_number
    /\ delay_since_first_attempt_ms' = others[b].delay_since_first_attempt_ms
    /\ error' = others[b].error
    /\ blobs' = others[b].blobs
    /\ blob_pos' = others[b].blob_pos
    /\ df_filelist' = others[b].df_filelist
    /\ file_group_ordinal' = others[b].file_group_ordinal
    /\ batch_filename' = others[b].batch_filename
    /\ rec_pos' = others[b].rec_pos
    /\ run_keys' = others[b].run_keys
    /\ transformed' = others[b].transformed
    /\ UNCHANGED <<params, stores, pipeline_name, file_counter, batch_number,
                   total_number_files_in_bucket, written, prev_gen, processed,
                   uploads, touched>>

\* the steps of the group on one staging root; as in NextGroup no call of the
\* store and no archive fails
NextShared ==
    \/ Invoke("generate_batch_metadata_files", 1)
    \/ LaunchGroup
    \/ \E b \in DOMAIN others : SwitchShared(b)
    \/ GroupEnd
    \/ Main
    \/ RemoveStalePaths
    \/ GenerateBegin
    \/ GenerateStep
    \/ GenerateReturn
    \/ BatchList
    \/ BatchNext
    \/ BatchReturn
    \/ ProcessBatchOpen
    \/ ProcessRecordDownload
    \/ ProcessRecordExtract
    \/ ProcessRecordTransform
    \/ RetryReturn
    \/ RetryStop
    \/ RetryAgain
    \/ Terminate

SpecShared == InitGroup /\ [][NextShared]_vars

\* ---- properties ----
Generating == pipeline_name = "generate_batch_metadata_files"
Batching == pipeline_name = "run_batch_data"
InProcessBatch == pc \in {"pb_manifest", "pb_record", "pb_extract", "pb_transform"}

\* the listed blobs that generate_batch_metadata_files takes as matching
MatchingBlobs == {i \in 1..Len(blobs) : FilenameFind(blobs[i]) > 0}
CeilDiv(m, n) == (m + n - 1) \div n

\* C1: when generate_batch_metadata_files returns over a listing of M >= 1
\* matching objects, it has written ceil(M / N) manifests and every matching
\* object is a row of some written manifest.
C1_AllObjectsInCeilManifests ==
    (Generating /\ pc = "returned" /\ MatchingBlobs # {}) =>
        /\ Len(written) =
               CeilDiv(Cardinality(MatchingBlobs), source_file_batch_length)
        /\ \A i \in MatchingBlobs :
               \E k \in 1..Len(written) :
                   \E r \in 1..Len(written[k].body) :
                       written[k].body[r].pathname =
                           source_url_gcs \o <<blobs[i][3]>>

\* the ordinals of 1..batch_group_size whose invocation takes the i-th manifest
OrdinalsTaking(i) ==
    {b \in 1..batch_group_size : FileGroupOrdinalAt(i, batch_group_size) = b}

\* C2: over the manifest listing of a run_batch_data invocation, every listed
\* manifest is selected by exactly one batch_ordinal of 1..batch_group_size
\* (the selections are pairwise disjoint and cover the listing); the loop's
\* file_group_ordinal is the ordinal assigned to the manifest under the cursor,
\* and a manifest is in process_batch only under its own ordinal.
C2_AssignmentIsPartition ==
    (Batching /\ (pc = "batch_loop" \/ InProcessBatch)) =>
        /\ \A i \in 1..Len(blobs) : Cardinality(OrdinalsTaking(i)) = 1
        /\ file_group_ordinal = FileGroupOrdinalAt(blob_pos, batch_group_size)
        /\ InProcessBatch => OrdinalsTaking(blob_pos) = {batch_ordinal}

C2_Witness ==
    /\ Batching
    /\ pc = "pb_manifest"
    /\ Len(blobs) > batch_group_size

\* C3: the wrapper makes at most 7 attempts, starts a new attempt only after a
\* failed one and only while the time since the first attempt does not exceed
\* 300 seconds, raises the error of the last attempt when it stops, and makes
\* no attempt after one that returned.
C3_RetryIsBounded ==
    [][/\ attempt_number' <= StopMaxAttemptNumber
       /\ (pc' = "main" /\ pc # "idle") =>
              /\ pc = "raised"
              /\ attempt_number' = attempt_number + 1
              /\ delay_since_first_attempt_ms' <= StopMaxDelay
       /\ (pc' = "exit_err" /\ pc # "exit_err") =>
              /\ pc = "raised"
              /\ error' = error
              /\ error.kind # "none"
              /\ error.attempt = attempt_number
              /\ attempt_number' = attempt_number
       /\ pc = "returned" => pc' \in {"returned", "exit_ok"}
       /\ pc = "exit_ok" => pc' \in {"exit_ok", "idle"}]_vars

C3_Witness ==
    /\ pc = "exit_err"
    /\ attempt_number = StopMaxAttemptNumber
    /\ delay_since_first_attempt_ms > 0
    /\ delay_since_first_attempt_ms < StopMaxDelay

\* C4: whenever process_batch stops handling a record, the local archive, the
\* unpacked directory and the rewritten file of that record are gone.
C4_StagedArtifactsDeleted ==
    (Batching /\ pc = "raised" /\ batch_filename # <<>> /\ rec_pos >= 1) =>
        {SourceTarFile, SourceJsonDir, DestinationJsonFile} \cap DOMAIN fs = {}

\* C5: without a storage or extraction failure, process_batch on a manifest of
\* k >= 1 records does not end in an error.
C5_ProcessBatchCompletes ==
    ~ /\ Batching
      /\ pc = "raised"
      /\ batch_filename # <<>>
      /\ Len(df_filelist) >= 1
      /\ error.kind \notin {"storage", "NotFound", "extract"}

\* C6: a generate run that returns over the source set of the last successful
\* generate run leaves the store with the manifests that run left.
C6_GenerateIsIdempotent ==
    (Generating /\ pc = "returned" /\ prev_gen # <<>>) =>
        Manifests(bucket) = prev_gen[1]

C6_Witness ==
    /\ Generating
    /\ pc = "returned"
    /\ prev_gen # <<>>
    /\ DOMAIN prev_gen[1] # {}
    /\ written # <<>>

\* C7: when a generate run returns, every manifest object in the store was
\* uploaded by that run.
C7_NoStaleManifests ==
    (Generating /\ pc = "returned") => DOMAIN Manifests(bucket) \subseteq run_keys

\* what the record transform is to produce from one line
ExpectedLine(line, guid) ==
    IF Len(line) >= 2 /\ line[1] = Tok("{") /\ line[2] = Tok("\"frame\"")
    THEN <<line[1], IdTok(guid)>> \o Tail(line)
    ELSE line

\* C8: every add_id_column call succeeds and leaves an output in which each
\* line that begins with the marker has the id field after its brace and every
\* other line is as in the input.
C8_AddIdColumnTransforms ==
    \A i \in 1..Len(transformed) :
        /\ transformed[i].ok
        /\ Len(transformed[i].out) = Len(transformed[i].inp)
        /\ \A l \in 1..Len(transformed[i].inp) :
               transformed[i].out[l] =
                   ExpectedLine(transformed[i].inp[l], transformed[i].guid)

\* C9: the k-th manifest written by a generate attempt is named
\* batch_metadata-<k padded to 6 digits>.txt and all its rows carry
\* batchnumber k.
C9_ManifestNumbering ==
    Generating =>
        \A k \in 1..Len(written) :
            /\ k < 10
            /\ written[k].key[3] =
                   [base |-> "batch_metadata-", stem |-> <<0, 0, 0, 0, 0, k>>,
                    ext |-> ".txt"]
            /\ \A r \in 1..Len(written[k].body) :
                   written[k].body[r].batchnumber = k

C9_Witness ==
    /\ Generating
    /\ Len(written) >= 2
    /\ Len(written[1].body) >= 1

\* the loop of process_batch_metadata_files is about to treat a listed manifest
AtManifest ==
    /\ Batching
    /\ pc = "batch_loop"
    /\ blob_pos <= Len(blobs)

\* C10 as stated: the manifest at listing index i is processed under ordinal b
\* exactly when (i mod G) = b, with i counted from 0 or from 1.
C10_IndexModEqualsOrdinal ==
    [][(AtManifest /\ batch_ordinal \in 1..batch_group_size) =>
          \/ (pc' = "pb_manifest") <=>
                 ((blob_pos - 1) % batch_group_size = batch_ordinal)
          \/ (pc' = "pb_manifest") <=>
                 (blob_pos % batch_group_size = batch_ordinal)]_vars

\* C10 amended: the manifest at 0-based listing index i is processed under
\* ordinal b exactly when (i mod G) + 1 = b: the loop hands the manifest under
\* its cursor to process_batch in exactly that case, and the ordinal it
\* assigns to every listed manifest is (i mod G) + 1.
C10_IndexModPlusOneEqualsOrdinal ==
    [][AtManifest =>
          /\ (pc' = "pb_manifest") <=>
                 (((blob_pos - 1) % batch_group_size) + 1 = batch_ordinal)
          /\ \A i \in 1..Len(blobs) :
                 FileGroupOrdinalAt(i, batch_group_size) =
                     ((i - 1) % batch_group_size) + 1]_vars

C10_Witness ==
    /\ Batching
    /\ pc = "pb_manifest"
    /\ blob_pos = 2
    /\ batch_ordinal = 2

\* the step the record under the cursor of process_batch is at fails: the
\* archive is not in the store, the unpacked out.log is missing, or sed exits
\* with an error
RecordStepFails ==
    \/ /\ pc = "pb_record"
       /\ CurrentRow.pathname \notin DOMAIN bucket
    \/ /\ pc = "pb_transform"
       /\ \/ SourceJsonDir \notin DOMAIN fs
          \/ SedExit(ShellWords(AddIdCommand(CurrentRow.guid,
                                              DestinationJsonFile),
                                 <<>>, <<>>)) # 0

\* C13: no error is suppressed.  A failing step of a record ends the attempt
\* with that error and without an upload; every step that records an error
\* ends the attempt; and from a failed attempt the only step is the retry
\* wrapper's, which keeps the error and starts main anew or stops, so no later
\* record or manifest is treated in that attempt.
C13_ErrorsAbortTheAttempt ==
    [][/\ (Batching /\ InProcessBatch /\ RecordStepFails) =>
              /\ pc' = "raised"
              /\ bucket' = bucket
              /\ error'.kind # "none"
              /\ error'.attempt = attempt_number
       /\ (error' # error /\ pc # "exit_ok" /\ pc # "exit_err" /\ pc # "idle") =>
              pc' = "raised"
       /\ pc = "raised" =>
              /\ pc' \in {"main", "exit_err"}
              /\ error' = error
              /\ stores' = stores
              /\ blob_pos' = 0 /\ rec_pos' = 0]_vars

C13_Witness ==
    /\ Batching
    /\ pc = "raised"
    /\ error.kind \in {"CalledProcessError", "FileNotFoundError"}
    /\ rec_pos = 1
    /\ rec_pos < Len(df_filelist) \/ blob_pos < Len(blobs)

StagingLayout == {"root", target_source_folder, target_unpack_folder,
                  target_load_folder, target_batch_folder}
StorePcs == {"transfer", "gen_clean", "gen_begin", "gen_loop", "batch_list",
             "batch_loop", "pb_manifest", "pb_record", "pb_extract",
             "pb_transform"}

\* C14: in every attempt and for every pipeline_name, whenever main is at a
\* point where it lists, downloads, uploads or deletes, the staging root and
\* its four subdirectories exist; the step of main that ensures the layout
\* raises no error, keeps every directory that exists and leaves the staged
\* files and the store as they are.
C14_LayoutBeforeStoreOperations ==
    [][/\ pc' \in StorePcs => StagingLayout \subseteq dirs'
       /\ pc = "main" =>
              /\ pc' \in StorePcs \cup {"returned"}
              /\ dirs \subseteq dirs'
              /\ StagingLayout \subseteq dirs'
              /\ fs' = fs
              /\ bucket' = bucket
              /\ error' = error]_vars

C14_Witness ==
    /\ pc = "batch_list"
    /\ attempt_number >= 2
    /\ DOMAIN fs # {}
    /\ StagingLayout \subseteq dirs

\* the rows of the manifests written so far, in the order of writing
RECURSIVE WrittenRows(_)
WrittenRows(w) == IF w = <<>> THEN <<>> ELSE Head(w).body \o WrittenRows(Tail(w))

IsMatching(k) == FilenameFind(k) > 0

\* C15: in a generate attempt no object is a row of two written manifests or
\* twice a row of one, every written manifest has at most
\* source_file_batch_length rows, and the rows of the written manifests, in
\* the order of writing, are the matching objects in listing order.
C15_ManifestsAreDisjointBoundedOrdered ==
    Generating =>
        LET rows == WrittenRows(written)
            matching == SelectSeq(blobs, IsMatching)
        IN /\ \A i, j \in 1..Len(rows) :
                  rows[i].pathname = rows[j].pathname => i = j
           /\ \A k \in 1..Len(written) :
                  Len(written[k].body) <= source_file_batch_length
           /\ Len(rows) <= Len(matching)
           /\ \A j \in 1..Len(rows) :
                  rows[j].pathname = source_url_gcs \o <<matching[j][3]>>

C15_Witness ==
    /\ Generating
    /\ source_file_batch_length = 2
    /\ Len(written) >= 1
    /\ Len(written[1].body) = 2

\* C17: in an iteration of the generate loop that writes a manifest, the
\* manifest holds exactly the rows gathered before the object under the
\* cursor, and that object becomes the only row of the new group, with the
\* incremented batch_number; no manifest is written while batch_number is 0,
\* nor by the first matching object.
C17_FlushThenAppend ==
    [][(Generating /\ pc = "gen_loop" /\ pc' = "gen_loop") =>
          /\ written' # written =>
                 /\ Len(written') = Len(written) + 1
                 /\ written'[Len(written')].body = df_filelist
                 /\ bucket'[written'[Len(written')].key] = df_filelist
                 /\ df_filelist # <<>>
                 /\ batch_number' = batch_number + 1
                 /\ df_filelist' =
                        <<[pathname |-> source_url_gcs \o <<blobs[blob_pos][3]>>,
                           guid |-> blobs[blob_pos][3].stem,
                           batchnumber |-> batch_number + 1]>>
          /\ (batch_number = 0 \/ file_counter = 0) =>
                 /\ written' = written
                 /\ bucket' = bucket]_vars

C17_Witness ==
    /\ Generating
    /\ pc = "gen_loop"
    /\ Len(written) = 1
    /\ Len(df_filelist) = 1
    /\ df_filelist[1].batchnumber = 2
    /\ file_counter >= 2

\* C19: when a run_batch_data invocation has listed the manifests, every
\* manifest object that the generate phase uploaded to the store is in its
\* listing.
C19_UploadedManifestsAreListed ==
    (Batching /\ pc = "batch_loop") =>
        \A k \in DOMAIN Manifests(bucket) :
            \E i \in 1..Len(blobs) : blobs[i] = k

\* C20: the pre-clean of the generate phase keeps every object of the store
\* that is neither under <target_gcs_path>/<target_load_folder> nor under
\* <target_gcs_path>/<target_batch_folder>.
C20_PreCleanKeepsOtherObjects ==
    [][(pc = "gen_clean" /\ pc' = "gen_begin") =>
          \A k \in DOMAIN bucket :
              ~(k[1] = target_gcs_path
                /\ k[2] \in {target_load_folder, target_batch_folder}) =>
                  /\ k \in DOMAIN bucket'
                  /\ bucket'[k] = bucket[k]]_vars

Exited == pc \in {"exit_ok", "exit_err"}

\* C12: every invocation that is started ends, with exit status zero or with
\* the error of its last attempt.  It ends with status zero in the step after
\* an attempt returned, and only then, the attempt that returned having
\* raised no error; it ends with an error only after an attempt that raised
\* and reached a limit of the wrapper.
C12_InvocationEndsInOneOutcome ==
    /\ (pc = "main") ~> Exited
    /\ [][/\ pc = "returned" => pc' = "exit_ok"
          /\ (pc' = "exit_ok" /\ pc # "exit_ok") =>
                 /\ pc = "returned"
                 /\ error.attempt # attempt_number
          /\ (pc' = "exit_err" /\ pc # "exit_err") =>
                 /\ pc = "raised"
                 /\ error.attempt = attempt_number
                 /\ error' = error
                 /\ ShouldStop(attempt_number, delay_since_first_attempt_ms')
          /\ Exited => pc' \in {pc, "idle"}]_vars

C12_Witness ==
    /\ pc = "exit_ok"
    /\ attempt_number >= 2
    /\ error.kind # "none"

\* the invocations of the group, the one taking the step included
GroupContexts ==
    [b \in DOMAIN others \cup {batch_ordinal} |->
        IF b = batch_ordinal THEN CurrentContext ELSE others[b]]

InjectedFailures == {"storage", "extract", "NotFound"}
LoadKey(guid) == <<target_gcs_path, target_load_folder, OutName(guid)>>

\* C11: when the batch_group_size invocations of a group, with the ordinals
\* 1 .. batch_group_size, have all exited and none of them ended on a failure
\* of the store or of an archive, process_batch has run to its end on every
\* listed manifest in exactly one invocation, the load object of every record
\* was uploaded by exactly one invocation, and no load object was uploaded by
\* two invocations.
C11_EachManifestByExactlyOneInvocation ==
    (/\ Batching
     /\ GroupExited
     /\ \A b \in DOMAIN GroupContexts :
            GroupContexts[b].pc = "exit_err" =>
                GroupContexts[b].error.kind \notin InjectedFailures) =>
        LET listing == ListBlobs(bucket, <<target_gcs_path, target_batch_folder>>)
        IN /\ \A i \in 1..Len(listing) :
                  /\ Cardinality({b \in 1..batch_group_size :
                                     <<b, listing[i]>> \in processed}) = 1
                  /\ \A r \in 1..Len(bucket[listing[i]]) :
                         Cardinality({b \in 1..batch_group_size :
                             <<b, LoadKey(ReadCsv(bucket[listing[i]])[r].guid)>>
                                 \in uploads}) = 1
           /\ \A u1, u2 \in uploads : u1[2] = u2[2] => u1[1] = u2[1]

\* the staged artifacts of the i-th record of the manifest at hand
ArtifactsOf(i) ==
    {<<target_source_folder, df_filelist[i].pathname[3]>>,
     <<target_unpack_folder, DirName(df_filelist[i].guid)>>,
     <<target_load_folder, OutName(df_filelist[i].guid)>>}

\* C16: the steps of a record follow one another in the order download,
\* extract, rewrite, upload, cleanup.  After the download comes the extraction
\* of the archive that is then staged; after the extraction comes the
\* rewrite; the step that rewrites an unpacked out.log goes on to upload the
\* rewritten file and to delete the three staged artifacts, and only then the
\* next record or the next manifest is taken; when the download of a record
\* starts, nothing of the record before it is staged.
C16_RecordStepsInOrder ==
    [][Batching =>
          /\ (pc = "pb_record" /\ pc' # pc) =>
                 /\ pc' \in {"pb_extract", "raised"}
                 /\ pc' = "pb_extract" => SourceTarFile \in DOMAIN fs'
          /\ (pc = "pb_extract" /\ pc' # pc) =>
                 pc' \in {"pb_transform", "raised"}
          /\ (pc = "pb_transform" /\ pc' # pc /\ SourceJsonDir \in DOMAIN fs) =>
                 /\ LoadKey(CurrentRow.guid) \in DOMAIN bucket'
                 /\ bucket'[LoadKey(CurrentRow.guid)] =
                        SedSubstitute(fs[SourceJsonDir], CurrentRow.guid)
                 /\ ArtifactsOf(rec_pos) \cap DOMAIN fs' = {}
                 /\ pc' \in {"pb_record", "batch_loop"}
          /\ (pc' = "pb_record" /\ pc # "pb_record") =>
                 /\ rec_pos' = IF pc = "pb_manifest" THEN 1 ELSE rec_pos + 1
                 /\ rec_pos' > 1 =>
                        ArtifactsOf(rec_pos) \cap DOMAIN fs' = {}]_vars

\* the listed manifests that the invocation at hand selects
SelectedManifests ==
    {i \in 1..Len(blobs) :
        FileGroupOrdinalAt(i, batch_group_size) = batch_ordinal}

TransferPcs == {"transfer"}
GeneratePcs == {"gen_clean", "gen_begin", "gen_loop"}
BatchPcs == {"batch_list", "batch_loop", "pb_manifest", "pb_record",
             "pb_extract", "pb_transform"}

\* C21: an attempt of main is in the transfer phase only under pipeline_name
\* transfer_source, in the generate phase only under
\* generate_batch_metadata_files and in the batch phase only under
\* run_batch_data, it enters that phase from the dispatch and leaves it only
\* by returning or raising; under any other pipeline_name the dispatch
\* returns at once, with the staging layout in place and the store and the
\* staged files untouched, and the invocation exits with status zero.
C21_OnePhasePerAttempt ==
    [][/\ pc' \in TransferPcs => pipeline_name' = "transfer_source"
       /\ pc' \in GeneratePcs => pipeline_name' = "generate_batch_metadata_files"
       /\ pc' \in BatchPcs => pipeline_name' = "run_batch_data"
       /\ (pc \in StorePcs /\ pc' # pc) =>
              \/ pc' \in {"returned", "raised"}
              \/ /\ pc \in GeneratePcs /\ pc' \in GeneratePcs
              \/ /\ pc \in BatchPcs /\ pc' \in BatchPcs
       /\ (pc' \in StorePcs /\ pc \notin StorePcs) => pc = "main"
       /\ (pc = "main" /\ pipeline_name \notin {"transfer_source",
                                                "generate_batch_metadata_files",
                                                "run_batch_data"}) =>
              /\ pc' = "returned"
              /\ StagingLayout \subseteq dirs'
              /\ bucket' = bucket
              /\ fs' = fs
       /\ (pc = "returned" /\ pipeline_name \notin {"transfer_source",
                                                    "generate_batch_metadata_files",
                                                    "run_batch_data"}) =>
              /\ pc' = "exit_ok"
              /\ attempt_number = 1
              /\ bucket' = bucket
              /\ fs' = fs]_vars

C21_Witness ==
    /\ pipeline_name = "other"
    /\ pc = "exit_ok"
    /\ StagingLayout \subseteq dirs
    /\ DOMAIN bucket # {}

\* the rows of the listed manifests, as generate_batch_metadata_files wrote them
RECURSIVE ListedRows(_)
ListedRows(listing) ==
    IF listing = <<>> THEN <<>>
    ELSE bucket[Head(listing)] \o ListedRows(Tail(listing))

\* no identifier is in two rows of the listed manifests
DistinctIdentifiers ==
    LET rows == ListedRows(ListBlobs(bucket,
                                     <<target_gcs_path, target_batch_folder>>))
    IN \A i, j \in 1..Len(rows) : rows[i].guid = rows[j].guid => i = j

\* C22: in a group of run_batch_data invocations with distinct ordinals on one
\* staging root, over manifests whose identifiers are pairwise distinct, a
\* staged path (local manifest, archive, unpacked directory, rewritten file)
\* that one invocation wrote, read or deleted is never written, read or
\* deleted by another invocation, and a step of an invocation leaves every
\* staged file that another invocation touched as it is.
C22_StagedArtifactsAreNotShared ==
    [][(Batching /\ DistinctIdentifiers) =>
          /\ \A t1, t2 \in touched' : t1[2] = t2[2] => t1[1] = t2[1]
          /\ batch_ordinal' = batch_ordinal =>
                 \A t \in touched :
                     t[1] # batch_ordinal =>
                         /\ (t[2] \in DOMAIN fs) = (t[2] \in DOMAIN fs')
                         /\ t[2] \in DOMAIN fs => fs'[t[2]] = fs[t[2]]]_vars

====
